---------------------------- MODULE Spec2Model ----------------------------
(***************************************************************************)
(* Model of src/dashboard.py: a Streamlit script that is re-run from top   *)
(* to bottom on every interaction.  One run loads the (cached) table,      *)
(* reads the two date widgets, filters the table, computes three KPIs, the *)
(* per-category revenue / cancellation table, draws the category chart,    *)
(* computes the delivery-delay buckets and shows their mean review score.  *)
(*                                                                         *)
(* Representation.  A time stamp is a number of ticks; TicksPerDay ticks   *)
(* make one calendar day.  A nullable cell is a sequence of length <= 1    *)
(* (<<>> is NaT / NaN).  A float that may be NaN is a pair <<num, den>>    *)
(* standing for num / den, with den = 0 for NaN (the mean of no values is  *)
(* 0 / 0).  Categories are numbers so that the group keys can be ordered   *)
(* as groupby orders them.                                                 *)
(***************************************************************************)
EXTENDS Integers, Sequences, FiniteSets

VARIABLES
    fileExists,     \* whether all_data.csv is present
    csv,            \* the rows of all_data.csv, cells as they stand in the file
    cache,          \* the memo of st.cache_data for load_data()
    loads,          \* how many times the body of load_data() was executed
    input,          \* the date widgets' session state: <<>> or <<start, end>>
    pc,             \* position of the current script run
    all_df,         \* line 44
    errors,         \* st.error messages shown by the current run
    ran,            \* the sections of the script the current run executed
    start_date,     \* line 66
    end_date,       \* line 74
    main_df,        \* line 90
    total_revenue,  \* line 103
    total_order,    \* line 107
    avg_score,      \* line 111
    q1_df,          \* lines 137-142
    top_10_df,      \* line 145
    q2_df,          \* lines 187-199
    late_score,     \* line 240
    ontime_score,   \* line 241
    delta,          \* line 244: late_score - ontime_score
    snap,           \* history: the outcome of one earlier run of the session
    conv            \* history: how a score-less bucket's mean was surfaced

vars == <<fileExists, csv, cache, loads, input, pc, all_df, errors, ran,
          start_date, end_date, main_df, total_revenue, total_order,
          avg_score, q1_df, top_10_df, q2_df, late_score, ontime_score,
          delta, snap, conv>>

runVars == <<all_df, errors, ran, start_date, end_date, main_df,
             total_revenue, total_order, avg_score, q1_df, top_10_df,
             q2_df, late_score, ontime_score, delta>>

-----------------------------------------------------------------------------
(* Bounds of the model.                                                    *)

MaxRows == 2
NumDays == 3
TicksPerDay == 2
NumCats == 11

(* Program constant: head(10), line 145.                                   *)
TopN == 10

-----------------------------------------------------------------------------
(* Cells and floats.                                                       *)

Null == <<>>
Some(v) == <<v>>
IsNull(c) == Len(c) = 0
Val(c) == c[1]

NaN == <<0, 0>>
Num(n) == <<n, 1>>
IsNaN(x) == x[2] = 0
FloatSub(x, y) ==
    IF IsNaN(x) \/ IsNaN(y) THEN NaN
    ELSE <<x[1] * y[2] - y[1] * x[2], x[2] * y[2]>>

Min2(a, b) == IF a <= b THEN a ELSE b

SetMin(S) ==
    LET x == CHOOSE y \in S : \A z \in S : y <= z IN x

SetMax(S) ==
    LET x == CHOOSE y \in S : \A z \in S : z <= y IN x

RECURSIVE SortedSeq(_)
SortedSeq(S) ==
    IF S = {} THEN <<>>
    ELSE LET m == SetMin(S) IN <<m>> \o SortedSeq(S \ {m})

RECURSIVE SeqSum(_)
SeqSum(s) == IF s = <<>> THEN 0 ELSE Head(s) + SeqSum(Tail(s))

Prices(df) == [i \in 1..Len(df) |-> df[i].price]
Scores(df) == [i \in 1..Len(df) |-> Val(df[i].review_score)]

-----------------------------------------------------------------------------
(* The file: raw cells of a date column.                                   *)

Ts(t) == [text |-> "ts", t |-> t]
EmptyCell == [text |-> "empty", t |-> 0]
BadCell == [text |-> "bad", t |-> 0]

RawRow(o, s, p, c, r, pt, dt, et) ==
    [order_id |-> o, order_status |-> s, price |-> p,
     product_category_name_english |-> c, review_score |-> r,
     order_purchase_timestamp |-> pt,
     order_delivered_customer_date |-> dt,
     order_estimated_delivery_date |-> et]

(* pd.to_datetime(col, errors='coerce'), line 36: a parseable text becomes *)
(* its time stamp, anything else NaT.                                      *)
to_datetime(cell) == IF cell.text = "ts" THEN Some(cell.t) ELSE Null

ParseRow(raw) ==
    [raw EXCEPT
        !.order_purchase_timestamp = to_datetime(raw.order_purchase_timestamp),
        !.order_delivered_customer_date = to_datetime(raw.order_delivered_customer_date),
        !.order_estimated_delivery_date = to_datetime(raw.order_estimated_delivery_date)]

(* The body of load_data(), lines 25-41.                                   *)
NoTable == [loaded |-> FALSE, rows |-> <<>>]
load_data_body ==
    IF fileExists
    THEN [loaded |-> TRUE, rows |-> [i \in 1..Len(csv) |-> ParseRow(csv[i])]]
    ELSE NoTable

NotCached == [hit |-> FALSE, value |-> NoTable]

-----------------------------------------------------------------------------
(* Section 2: the sidebar.                                                 *)

DateOf(t) == t \div TicksPerDay

PurchaseStamps(df) ==
    {Val(df[i].order_purchase_timestamp) :
        i \in {j \in 1..Len(df) : ~IsNull(df[j].order_purchase_timestamp)}}

min_date(df) == DateOf(SetMin(PurchaseStamps(df)))
max_date(df) == DateOf(SetMax(PurchaseStamps(df)))

(* Mutant of InRange: the time stamp itself is compared with midnight of   *)
(* the two dates, so the end day's rows after midnight are lost.           *)
InRangeByTimestamp(row, s, e) ==
    /\ ~IsNull(row.order_purchase_timestamp)
    /\ Val(row.order_purchase_timestamp) >= s * TicksPerDay
    /\ Val(row.order_purchase_timestamp) <= e * TicksPerDay

(* Lines 90-93: NaT compares False with any date.                          *)
InRange(row, s, e) ==
    /\ ~IsNull(row.order_purchase_timestamp)
    /\ DateOf(Val(row.order_purchase_timestamp)) >= s
    /\ DateOf(Val(row.order_purchase_timestamp)) <= e

FilterRows(df, s, e) == SelectSeq(df, LAMBDA row : InRange(row, s, e))

-----------------------------------------------------------------------------
(* Section 3: the KPIs.                                                    *)

IsDelivered(row) == row.order_status = "delivered"
IsCanceled(row) == row.order_status \in {"canceled", "unavailable"}

Delivered(df) == SelectSeq(df, IsDelivered)

(* Mutant of Revenue: the status filter is forgotten.                      *)
RevenueAnyStatus(df) == SeqSum(Prices(df))

Revenue(df) == SeqSum(Prices(Delivered(df)))

NUnique(df) == Cardinality({df[i].order_id : i \in 1..Len(df)})

(* Series.mean(): nulls are skipped, the mean of nothing is NaN.           *)
MeanScore(df) ==
    LET scored == SelectSeq(df, LAMBDA row : ~IsNull(row.review_score))
    IN  <<SeqSum(Scores(scored)), Len(scored)>>

-----------------------------------------------------------------------------
(* Section 4: revenue and cancellation rate per category, lines 122-145.   *)

HasCat(row) == ~IsNull(row.product_category_name_english)
CatOf(row) == Val(row.product_category_name_english)

(* The group keys of df.groupby('product_category_name_english'): the      *)
(* non-null categories, in ascending order.                                *)
GroupKeys(df) == SortedSeq({CatOf(df[i]) : i \in {j \in 1..Len(df) : HasCat(df[j])}})

Group(df, c) == SelectSeq(df, LAMBDA row : HasCat(row) /\ CatOf(row) = c)

(* Line 124.                                                               *)
rev_df(df) ==
    LET d == Delivered(df)
        keys == GroupKeys(d)
    IN  [k \in 1..Len(keys) |->
            [category |-> keys[k], total_revenue |-> SeqSum(Prices(Group(d, keys[k])))]]

(* Mutant of total_orders_cat: the orders are counted over the delivered   *)
(* rows only.                                                              *)
total_orders_cat_delivered(df) ==
    LET d == Delivered(df)
        keys == GroupKeys(d)
    IN  [k \in 1..Len(keys) |->
            [category |-> keys[k], total_orders |-> NUnique(Group(d, keys[k]))]]

(* Line 129.                                                               *)
total_orders_cat(df) ==
    LET keys == GroupKeys(df)
    IN  [k \in 1..Len(keys) |->
            [category |-> keys[k], total_orders |-> NUnique(Group(df, keys[k]))]]

(* Line 133.                                                               *)
cancel_df(df) ==
    LET d == SelectSeq(df, IsCanceled)
        keys == GroupKeys(d)
    IN  [k \in 1..Len(keys) |->
            [category |-> keys[k], canceled_orders |-> NUnique(Group(d, keys[k]))]]

(* The right-hand cell of a left merge on the category: null when the key  *)
(* is absent on the right.                                                 *)
LookupTotal(t, c) ==
    LET hit == {k \in 1..Len(t) : t[k].category = c}
    IN  IF hit = {} THEN Null ELSE Some(t[CHOOSE k \in hit : TRUE].total_orders)

LookupCanceled(t, c) ==
    LET hit == {k \in 1..Len(t) : t[k].category = c}
    IN  IF hit = {} THEN Null ELSE Some(t[CHOOSE k \in hit : TRUE].canceled_orders)

fillna0(cell) == IF IsNull(cell) THEN 0 ELSE Val(cell)

(* Line 142: canceled_orders / total_orders * 100; a null total_orders     *)
(* makes the rate NaN.                                                     *)
Rate(canceled, total) ==
    IF IsNull(total) THEN NaN ELSE <<canceled * 100, Val(total)>>

(* Lines 137-142.                                                          *)
MergeRates(df) ==
    LET rev == rev_df(df)
        tot == total_orders_cat(df)
        can == cancel_df(df)
    IN  [k \in 1..Len(rev) |->
            LET total == LookupTotal(tot, rev[k].category)
                canceled == fillna0(LookupCanceled(can, rev[k].category))
            IN  [category |-> rev[k].category,
                 total_revenue |-> rev[k].total_revenue,
                 total_orders |-> total,
                 canceled_orders |-> canceled,
                 cancellation_rate |-> Rate(canceled, total)]]

RemoveAt(s, i) == SubSeq(s, 1, i - 1) \o SubSeq(s, i + 1, Len(s))

(* Mutant of SortByRevenueDesc: ascending=False is forgotten.              *)
RECURSIVE SortByRevenueAsc(_)
SortByRevenueAsc(q) ==
    IF q = <<>> THEN <<>>
    ELSE LET i == CHOOSE k \in 1..Len(q) :
                    /\ \A j \in 1..Len(q) : q[j].total_revenue >= q[k].total_revenue
                    /\ \A j \in 1..(k - 1) : q[j].total_revenue > q[k].total_revenue
         IN  <<q[i]>> \o SortByRevenueAsc(RemoveAt(q, i))

(* sort_values(by='total_revenue', ascending=False): descending, rows of   *)
(* equal revenue keep the order they had.                                  *)
RECURSIVE SortByRevenueDesc(_)
SortByRevenueDesc(q) ==
    IF q = <<>> THEN <<>>
    ELSE LET i == CHOOSE k \in 1..Len(q) :
                    /\ \A j \in 1..Len(q) : q[j].total_revenue <= q[k].total_revenue
                    /\ \A j \in 1..(k - 1) : q[j].total_revenue < q[k].total_revenue
         IN  <<q[i]>> \o SortByRevenueDesc(RemoveAt(q, i))

head(s, n) == SubSeq(s, 1, Min2(n, Len(s)))

(* Line 145.                                                               *)
Top10(q1) == head(SortByRevenueDesc(q1), TopN)

(* Line 165: top_10_df['cancellation_rate'].max() * 1.5 is NaN for an      *)
(* empty frame, and Axes.set_ylim raises ValueError on a NaN limit.        *)
YLimIsNaN(top) == top = <<>> \/ \A k \in 1..Len(top) : IsNaN(top[k].cancellation_rate)

-----------------------------------------------------------------------------
(* Section 5: delivery delay against review score, lines 187-247.          *)

Qualifies(row) ==
    /\ IsDelivered(row)
    /\ ~IsNull(row.order_delivered_customer_date)
    /\ ~IsNull(row.order_estimated_delivery_date)

(* Line 194: the days of the Timedelta, rounded towards minus infinity.    *)
delay_days(row) ==
    (Val(row.order_delivered_customer_date)
        - Val(row.order_estimated_delivery_date)) \div TicksPerDay

Late == "Terlambat (Late)"
OnTime == "Tepat Waktu (On Time)"

(* Mutant of delivery_status: a delay of 0 days counts as late.            *)
delivery_status_ge(x) == IF x >= 0 THEN Late ELSE OnTime

(* Lines 197-199.                                                          *)
delivery_status(x) == IF x > 0 THEN Late ELSE OnTime

(* Lines 187-199: the qualifying rows with their two new columns.          *)
DelayFrame(df) ==
    LET q == SelectSeq(df, Qualifies)
    IN  [i \in 1..Len(q) |->
            [row |-> q[i],
             delay_days |-> delay_days(q[i]),
             delivery_status |-> delivery_status(delay_days(q[i]))]]

BucketRows(q2, b) ==
    LET hit == SelectSeq(q2, LAMBDA x : x.delivery_status = b)
    IN  [i \in 1..Len(hit) |-> hit[i].row]

(* Lines 202, 240-241: score_summary.get(bucket, 0).  A bucket without     *)
(* rows is no key of the groupby result; a bucket with rows has the mean   *)
(* of its non-null scores.                                                 *)
score_get(q2, b) ==
    IF BucketRows(q2, b) = <<>> THEN Num(0) ELSE MeanScore(BucketRows(q2, b))

-----------------------------------------------------------------------------
(* The script run.                                                         *)

Ended == pc \in {"done", "stopped", "crashed"}

(* What a run leaves on the page once it has ended.                        *)
Outcome ==
    [pc |-> pc, errors |-> errors, ran |-> ran, main_df |-> main_df,
     total_revenue |-> total_revenue, total_order |-> total_order,
     avg_score |-> avg_score, q1_df |-> q1_df, top_10_df |-> top_10_df,
     q2_df |-> q2_df,
     late_score |-> late_score, ontime_score |-> ontime_score, delta |-> delta]

NoSnap == [set |-> FALSE, start |-> 0, end |-> 0, out |-> <<>>]

FreshRun ==
    /\ all_df = NoTable
    /\ errors = {}
    /\ ran = {}
    /\ start_date = 0
    /\ end_date = 0
    /\ main_df = <<>>
    /\ total_revenue = 0
    /\ total_order = 0
    /\ avg_score = NaN
    /\ q1_df = <<>>
    /\ top_10_df = <<>>
    /\ q2_df = <<>>
    /\ late_score = NaN
    /\ ontime_score = NaN
    /\ delta = NaN

(* Line 44: all_df = load_data().  st.cache_data runs the body on the      *)
(* first call and returns the memoized value (and replays the st.error of  *)
(* the body) on every later one.                                           *)
LoadData ==
    /\ pc = "load"
    /\ LET value == IF cache.hit THEN cache.value ELSE load_data_body
       IN  /\ all_df' = value
           /\ cache' = [hit |-> TRUE, value |-> value]
           /\ loads' = IF cache.hit THEN loads ELSE loads + 1
           /\ errors' = IF value.loaded THEN errors ELSE errors \cup {"DataNotFound"}
    /\ pc' = "loaded"
    /\ ran' = ran \cup {"load"}
    /\ UNCHANGED <<fileExists, csv, input, start_date, end_date, main_df,
                   total_revenue, total_order, avg_score, q1_df, top_10_df, q2_df,
                   late_score, ontime_score, delta, snap, conv>>

(* Mutant of HaltNoData: st.stop() is forgotten and the script goes on.    *)
HaltNoData_NoStop ==
    /\ pc = "loaded"
    /\ ~all_df.loaded
    /\ pc' = "filter"
    /\ UNCHANGED <<fileExists, csv, cache, loads, input, runVars, snap, conv>>

(* Lines 47-48: if all_df is None: st.stop().                              *)
HaltNoData ==
    /\ pc = "loaded"
    /\ ~all_df.loaded
    /\ pc' = "stopped"
    /\ UNCHANGED <<fileExists, csv, cache, loads, input, runVars, snap, conv>>

(* Lines 53-86: the date widgets (their defaults are the observed range,   *)
(* their session state is the user's last choice) and the validation.      *)
Sidebar ==
    /\ pc = "loaded"
    /\ all_df.loaded
    /\ LET s == IF input = <<>> THEN min_date(all_df.rows) ELSE input[1]
           e == IF input = <<>> THEN max_date(all_df.rows) ELSE input[2]
       IN  /\ start_date' = s
           /\ end_date' = e
           /\ IF s > e
              THEN /\ errors' = errors \cup {"InvalidRange"}
                   /\ pc' = "stopped"
              ELSE /\ errors' = errors
                   /\ pc' = "filter"
    /\ ran' = ran \cup {"sidebar"}
    /\ UNCHANGED <<fileExists, csv, cache, loads, input, all_df, main_df,
                   total_revenue, total_order, avg_score, q1_df, top_10_df, q2_df,
                   late_score, ontime_score, delta, snap, conv>>

(* Mutant of Filter: the rows are dropped from the cached table itself.    *)
Filter_InPlace ==
    /\ pc = "filter"
    /\ main_df' = FilterRows(all_df.rows, start_date, end_date)
    /\ cache' = [cache EXCEPT !.value.rows = FilterRows(all_df.rows, start_date, end_date)]
    /\ ran' = ran \cup {"filter"}
    /\ pc' = "kpi"
    /\ UNCHANGED <<fileExists, csv, loads, input, all_df, errors,
                   start_date, end_date, total_revenue, total_order, avg_score,
                   q1_df, top_10_df, q2_df, late_score, ontime_score, delta,
                   snap, conv>>

(* Lines 90-93.                                                            *)
Filter ==
    /\ pc = "filter"
    /\ main_df' = FilterRows(all_df.rows, start_date, end_date)
    /\ ran' = ran \cup {"filter"}
    /\ pc' = "kpi"
    /\ UNCHANGED <<fileExists, csv, cache, loads, input, all_df, errors,
                   start_date, end_date, total_revenue, total_order, avg_score,
                   q1_df, top_10_df, q2_df, late_score, ontime_score, delta, snap, conv>>

(* Lines 98-112.                                                           *)
Metrics ==
    /\ pc = "kpi"
    /\ total_revenue' = Revenue(main_df)
    /\ total_order' = NUnique(main_df)
    /\ avg_score' = MeanScore(main_df)
    /\ ran' = ran \cup {"kpi"}
    /\ pc' = "category"
    /\ UNCHANGED <<fileExists, csv, cache, loads, input, all_df, errors,
                   start_date, end_date, main_df, q1_df, top_10_df, q2_df,
                   late_score, ontime_score, delta, snap, conv>>

(* Lines 122-145.                                                          *)
CategoryAggregator ==
    /\ pc = "category"
    /\ q1_df' = MergeRates(main_df)
    /\ top_10_df' = Top10(MergeRates(main_df))
    /\ ran' = ran \cup {"category"}
    /\ pc' = "chart1"
    /\ UNCHANGED <<fileExists, csv, cache, loads, input, all_df, errors,
                   start_date, end_date, main_df, total_revenue, total_order,
                   avg_score, q2_df, late_score, ontime_score, delta, snap, conv>>

(* Lines 148-175: the dual-axis chart; set_ylim raises on a NaN limit and  *)
(* the uncaught exception ends the run.                                    *)
CategoryChart ==
    /\ pc = "chart1"
    /\ IF YLimIsNaN(top_10_df)
       THEN /\ pc' = "crashed"
            /\ ran' = ran
       ELSE /\ pc' = "delay"
            /\ ran' = ran \cup {"chart1"}
    /\ UNCHANGED <<fileExists, csv, cache, loads, input, all_df, errors,
                   start_date, end_date, main_df, total_revenue, total_order,
                   avg_score, q1_df, top_10_df, q2_df, late_score, ontime_score,
                   delta, snap, conv>>

(* Lines 187-202.                                                          *)
DelayAggregator ==
    /\ pc = "delay"
    /\ q2_df' = DelayFrame(main_df)
    /\ ran' = ran \cup {"delay"}
    /\ pc' = "takeaways"
    /\ UNCHANGED <<fileExists, csv, cache, loads, input, all_df, errors,
                   start_date, end_date, main_df, total_revenue, total_order,
                   avg_score, q1_df, top_10_df, late_score, ontime_score, delta,
                   snap, conv>>

(* How the mean of a bucket that has no review score was surfaced.         *)
Surfaced(q2, b) ==
    IF ~IsNaN(MeanScore(BucketRows(q2, b))) THEN {}
    ELSE IF IsNaN(score_get(q2, b)) THEN {"nan"} ELSE {"zero"}

(* Lines 205-254: the bar chart, the two metrics and the narrative.        *)
Takeaways ==
    /\ pc = "takeaways"
    /\ late_score' = score_get(q2_df, Late)
    /\ ontime_score' = score_get(q2_df, OnTime)
    /\ delta' = FloatSub(score_get(q2_df, Late), score_get(q2_df, OnTime))
    /\ conv' = conv \cup Surfaced(q2_df, Late) \cup Surfaced(q2_df, OnTime)
    /\ ran' = ran \cup {"takeaways"}
    /\ pc' = "done"
    /\ UNCHANGED <<fileExists, csv, cache, loads, input, all_df, errors,
                   start_date, end_date, main_df, total_revenue, total_order,
                   avg_score, q1_df, top_10_df, q2_df, snap>>

(* The dates the widgets accept: min_value .. max_value, lines 66-79.      *)
WidgetDates ==
    IF cache.hit /\ cache.value.loaded
    THEN min_date(cache.value.rows) .. max_date(cache.value.rows)
    ELSE {}

(* An interaction after the run has ended: the script is run again from    *)
(* the top with fresh variables.  The date widgets can be changed only if  *)
(* the ended run rendered them.  keep tells whether the history variable   *)
(* snap keeps its value or records the run that has just ended.            *)
RerunWith(keep) ==
    /\ Ended
    /\ IF "sidebar" \in ran
       THEN \E s \in WidgetDates, e \in WidgetDates : input' = <<s, e>>
       ELSE input' = input
    /\ snap' = IF keep THEN snap
               ELSE [set |-> TRUE, start |-> start_date, end |-> end_date,
                     out |-> <<Outcome>>]
    /\ pc' = "load"
    /\ all_df' = NoTable
    /\ errors' = {}
    /\ ran' = {}
    /\ start_date' = 0
    /\ end_date' = 0
    /\ main_df' = <<>>
    /\ total_revenue' = 0
    /\ total_order' = 0
    /\ avg_score' = NaN
    /\ q1_df' = <<>>
    /\ top_10_df' = <<>>
    /\ q2_df' = <<>>
    /\ late_score' = NaN
    /\ ontime_score' = NaN
    /\ delta' = NaN
    /\ UNCHANGED <<fileExists, csv, cache, loads, conv>>

Rerun == RerunWith(TRUE)

RerunObserved == \E keep \in BOOLEAN : RerunWith(keep)

Steps ==
    \/ LoadData
    \/ HaltNoData
    \/ Sidebar
    \/ Filter
    \/ Metrics
    \/ CategoryAggregator
    \/ CategoryChart
    \/ DelayAggregator
    \/ Takeaways

Next == Steps \/ Rerun

NextObserved == Steps \/ RerunObserved

-----------------------------------------------------------------------------
(* Initial states: a session starts with nothing cached and no widget      *)
(* touched.  The date widgets need an observed purchase date, so a file    *)
(* that is present has at least one parseable purchase time stamp.         *)

Days == 0 .. (NumDays - 1)
FirstTick(d) == d * TicksPerDay
LastTick(d) == d * TicksPerDay + (TicksPerDay - 1)

TablesOver(U, n) == UNION {[1..k -> U] : k \in 0..n}

HasStamp(t) == \E i \in 1..Len(t) : t[i].order_purchase_timestamp.text = "ts"

InitWith(tables) ==
    /\ \/ fileExists = TRUE /\ csv \in {t \in tables : HasStamp(t)}
       \/ fileExists = FALSE /\ csv = <<>>
    /\ cache = NotCached
    /\ loads = 0
    /\ input = <<>>
    /\ pc = "load"
    /\ FreshRun
    /\ snap = NoSnap
    /\ conv = {}

(* Purchase dates: rows at the first and the last tick of every day, with  *)
(* rows whose purchase time stamp is empty or unparseable.                 *)
PurchaseRows ==
    {RawRow(1, "delivered", 1, Some(1), Some(5), Ts(FirstTick(d)), Ts(0), Ts(0)) : d \in Days}
    \cup {RawRow(2, "delivered", 2, Some(2), Some(4), Ts(LastTick(d)), Ts(0), Ts(0)) : d \in Days}
    \cup {RawRow(3, "canceled", 3, Some(1), Null, Ts(FirstTick(0)), EmptyCell, Ts(0)),
          RawRow(4, "delivered", 2, Some(1), Some(3), EmptyCell, Ts(0), Ts(0)),
          RawRow(5, "delivered", 4, Some(2), Null, BadCell, Ts(0), Ts(0))}

PurchaseTables == TablesOver(PurchaseRows, MaxRows)

Init == InitWith(PurchaseTables)

Spec == Init /\ [][Next]_vars

(* Categories: orders of one or two line items in up to two categories or  *)
(* in none, in every status the aggregator distinguishes, and one order    *)
(* bought a day later.                                                     *)
CategoryRows ==
    {RawRow(o, st, o, c, Null, Ts(FirstTick(0)), EmptyCell, EmptyCell) :
        o \in {1, 2},
        st \in {"delivered", "canceled", "unavailable", "shipped"},
        c \in {Some(1), Some(2), Null}}
    \cup {RawRow(3, "shipped", 1, Null, Null, Ts(FirstTick(1)), EmptyCell, EmptyCell)}

(* Three delivered orders priced 10, 20, 30 and one canceled order, all in *)
(* one category.                                                           *)
ToysExample ==
    <<RawRow(1, "delivered", 10, Some(1), Null, Ts(0), EmptyCell, EmptyCell),
      RawRow(2, "delivered", 20, Some(1), Null, Ts(0), EmptyCell, EmptyCell),
      RawRow(3, "delivered", 30, Some(1), Null, Ts(0), EmptyCell, EmptyCell),
      RawRow(4, "canceled", 15, Some(1), Null, Ts(0), EmptyCell, EmptyCell)>>

(* n categories with one delivered order each, priced after pattern k (so  *)
(* that revenues tie and are out of key order), with or without a category *)
(* that has a canceled order only.                                         *)
WideTable(n, k, extra) ==
    [c \in 1..n |->
        RawRow(c, "delivered", (c * k) % 4, Some(c), Null, Ts(0), EmptyCell, EmptyCell)]
    \o (IF extra
        THEN <<RawRow(0, "canceled", 5, Some(0), Null, Ts(0), EmptyCell, EmptyCell)>>
        ELSE <<>>)

WideTables == {WideTable(n, k, extra) : n \in 0..NumCats, k \in 1..3, extra \in BOOLEAN}

CategoryTables == TablesOver(CategoryRows, MaxRows) \cup {ToysExample} \cup WideTables

InitCategory == InitWith(CategoryTables)

SpecCategory == InitCategory /\ [][Next]_vars

(* Deliveries around an estimate at midnight of day 10: two days late, a   *)
(* day early, on the tick, a tick late, a tick early; an estimate late in  *)
(* day 10 with a delivery early on day 11; rows that lack a date; a row    *)
(* that is not delivered.  Review scores are present or null.              *)
Estimate == FirstTick(10)

DelayCases ==
    {<<FirstTick(12), Estimate, 1>>, <<FirstTick(9), Estimate, 5>>,
     <<Estimate, Estimate, 5>>, <<Estimate + 1, Estimate, 4>>,
     <<Estimate - 1, Estimate, 3>>, <<FirstTick(11), LastTick(10), 2>>}

DelayRows ==
    {RawRow(1, "delivered", 1, Some(1), r, Ts(FirstTick(0)), Ts(x[1]), Ts(x[2])) :
        x \in DelayCases, r \in {Null}}
    \cup {RawRow(1, "delivered", 1, Some(1), Some(x[3]), Ts(FirstTick(0)), Ts(x[1]), Ts(x[2])) :
        x \in DelayCases}
    \cup {RawRow(2, "delivered", 1, Some(1), Some(5), Ts(FirstTick(0)), EmptyCell, Ts(Estimate)),
          RawRow(3, "delivered", 1, Some(1), Some(4), Ts(FirstTick(0)), Ts(FirstTick(12)), BadCell),
          RawRow(4, "shipped", 1, Some(1), Some(1), Ts(FirstTick(1)), Ts(FirstTick(12)), Ts(Estimate))}

DelayTables == TablesOver(DelayRows, MaxRows)

InitDelay == InitWith(DelayTables)

SpecDelay == InitDelay /\ [][Next]_vars

(* Sessions: one order a day on some of the days (the one of day 1 is      *)
(* canceled), followed by an order without a purchase time stamp.          *)
DayRow(d) ==
    RawRow(d + 1, IF d = 1 THEN "canceled" ELSE "delivered", d + 1,
           Some(d % 2), Some(d + 1), Ts(LastTick(d)), Ts(Estimate + d - 1),
           Ts(Estimate))

SessionTable(D) ==
    [i \in 1..Cardinality(D) |-> DayRow(SortedSeq(D)[i])]
    \o <<RawRow(9, "delivered", 7, Some(1), Some(1), EmptyCell, Ts(0), Ts(0))>>

SessionTables == {SessionTable(D) : D \in SUBSET Days}

InitSession == InitWith(SessionTables)

SpecSession == InitSession /\ [][NextObserved]_vars

-----------------------------------------------------------------------------
(* Properties.  The helpers below restate what a claim says in terms of    *)
(* the table and the time stamps; they do not use the operators above.     *)

Base == all_df.rows

Count(df, row) == Cardinality({i \in 1..Len(df) : df[i] = row})

(* The purchase falls on a calendar day d with s <= d <= e.                *)
PurchasedWithin(row, s, e) ==
    /\ row.order_purchase_timestamp # <<>>
    /\ s * TicksPerDay <= row.order_purchase_timestamp[1]
    /\ row.order_purchase_timestamp[1] < (e + 1) * TicksPerDay

RECURSIVE DeliveredPriceSum(_)
DeliveredPriceSum(df) ==
    IF df = <<>> THEN 0
    ELSE (IF Head(df).order_status = "delivered" THEN Head(df).price ELSE 0)
         + DeliveredPriceSum(Tail(df))

Stamped(df) == SelectSeq(df, LAMBDA row : row.order_purchase_timestamp # <<>>)

(* start is the first and end the last observed purchase date.             *)
FullRangeSelected ==
    /\ "sidebar" \in ran
    /\ \A i \in 1..Len(Stamped(Base)) : PurchasedWithin(Stamped(Base)[i], start_date, end_date)
    /\ \E i \in 1..Len(Stamped(Base)) : PurchasedWithin(Stamped(Base)[i], start_date, start_date)
    /\ \E i \in 1..Len(Stamped(Base)) : PurchasedWithin(Stamped(Base)[i], end_date, end_date)

(* C1: once the filter has run, the filtered rows are exactly the base     *)
(* rows whose purchase day lies in [start, end], both ends inclusive and   *)
(* the time of day ignored: not more rows than the base, every filtered    *)
(* row in range, every base row in range kept as often as it occurs, and   *)
(* no row with a null purchase time stamp.                                 *)
C1_FilterExact ==
    "filter" \in ran =>
        /\ start_date <= end_date
        /\ Len(main_df) <= Len(Base)
        /\ \A i \in 1..Len(main_df) :
            /\ PurchasedWithin(main_df[i], start_date, end_date)
            /\ Count(Base, main_df[i]) > 0
        /\ \A i \in 1..Len(Base) :
            Count(main_df, Base[i]) =
                IF PurchasedWithin(Base[i], start_date, end_date)
                THEN Count(Base, Base[i]) ELSE 0

C1_Witness ==
    /\ "filter" \in ran
    /\ Len(main_df) >= 1
    /\ Len(main_df) < Len(Base)
    /\ \E i \in 1..Len(main_df) :
        main_df[i].order_purchase_timestamp = <<LastTick(end_date)>>
    /\ \E i \in 1..Len(Base) : Base[i].order_purchase_timestamp = <<>>

(* C2: a run with start > end shows InvalidRange and stops before the      *)
(* filter and every aggregate; a later run with start <= end computes and  *)
(* renders all of them.                                                    *)
C2_InvalidRangeRecoverable ==
    /\ ("sidebar" \in ran /\ start_date > end_date) =>
        /\ pc = "stopped"
        /\ "InvalidRange" \in errors
        /\ ran = {"load", "sidebar"}
    /\ (Ended /\ snap.set /\ snap.start > snap.end
            /\ "sidebar" \in ran /\ start_date <= end_date) =>
        /\ pc = "done"
        /\ {"filter", "kpi", "category", "chart1", "delay", "takeaways"} \subseteq ran

(* C3 as stated: over the full date range the revenue KPI is the sum of    *)
(* price over all delivered rows of the base table.                        *)
C3_FullRangeRevenueAllRows ==
    ("kpi" \in ran /\ FullRangeSelected) => total_revenue = DeliveredPriceSum(Base)

(* C3 amended: over the full date range the revenue KPI is the sum of      *)
(* price over the delivered rows of the base table whose purchase time     *)
(* stamp is not null.                                                      *)
C3_FullRangeRevenueStamped ==
    ("kpi" \in ran /\ FullRangeSelected) =>
        total_revenue = DeliveredPriceSum(Stamped(Base))

C3_Witness ==
    /\ "kpi" \in ran
    /\ FullRangeSelected
    /\ total_revenue > 0
    /\ \E i \in 1..Len(Base) :
        /\ Base[i].order_status = "delivered"
        /\ Base[i].order_purchase_timestamp = <<>>
        /\ Base[i].price > 0

(* C4: a run whose valid range selects no rows ends at the end of the      *)
(* script: revenue 0, orders 0, average score NaN, empty top list, and the *)
(* category chart, the delay aggregation and the narrative all executed.   *)
C4_EmptyRangeCompletes ==
    (Ended /\ "filter" \in ran /\ main_df = <<>>) =>
        /\ pc = "done"
        /\ total_revenue = 0
        /\ total_order = 0
        /\ IsNaN(avg_score)
        /\ top_10_df = <<>>
        /\ {"chart1", "delay", "takeaways"} \subseteq ran

OrdersIn(df, c) ==
    {df[i].order_id :
        i \in {j \in 1..Len(df) : df[j].product_category_name_english = <<c>>}}

CanceledOrdersIn(df, c) ==
    {df[i].order_id :
        i \in {j \in 1..Len(df) :
                /\ df[j].product_category_name_english = <<c>>
                /\ df[j].order_status \in {"canceled", "unavailable"}}}

ToysFrame == [i \in 1..Len(ToysExample) |-> ParseRow(ToysExample[i])]

(* C5: for every category of the aggregator's output, canceled_orders is   *)
(* the number of distinct canceled or unavailable orders of the category,  *)
(* total_orders the number of its distinct orders of any status,           *)
(* canceled_orders <= total_orders, total_orders >= 1, and the rate is     *)
(* canceled_orders / total_orders * 100, within [0, 100]; the example of   *)
(* three delivered orders priced 10, 20, 30 and one canceled order gives   *)
(* total 4, canceled 1, revenue 60, rate 25.                               *)
C5_CancellationRate ==
    "category" \in ran =>
        /\ \A k \in 1..Len(q1_df) :
            LET e == q1_df[k]
                tot == Cardinality(OrdersIn(main_df, e.category))
                can == Cardinality(CanceledOrdersIn(main_df, e.category))
            IN  /\ e.total_orders = <<tot>>
                /\ e.canceled_orders = can
                /\ can <= tot
                /\ tot >= 1
                /\ e.cancellation_rate[2] > 0
                /\ e.cancellation_rate[1] * tot = can * 100 * e.cancellation_rate[2]
                /\ 0 <= e.cancellation_rate[1]
                /\ e.cancellation_rate[1] <= 100 * e.cancellation_rate[2]
        /\ main_df = ToysFrame =>
            /\ Len(q1_df) = 1
            /\ q1_df[1].total_orders = <<4>>
            /\ q1_df[1].canceled_orders = 1
            /\ q1_df[1].total_revenue = 60
            /\ q1_df[1].cancellation_rate[1] = 25 * q1_df[1].cancellation_rate[2]

C5_Witness ==
    /\ "category" \in ran
    /\ main_df = ToysFrame
    /\ Len(q1_df) = 1
    /\ q1_df[1].canceled_orders = 1
    /\ q1_df[1].cancellation_rate[2] > 0

DeliveredCats(df) ==
    UNION {IF df[i].order_status = "delivered"
           THEN {df[i].product_category_name_english[j] :
                    j \in 1..Len(df[i].product_category_name_english)}
           ELSE {} : i \in 1..Len(df)}

CatRevenue(df, c) ==
    DeliveredPriceSum(SelectSeq(df, LAMBDA row : row.product_category_name_english = <<c>>))

(* C6: the top list holds only categories with a delivered row, each with  *)
(* its revenue and once, in descending order of revenue; it has            *)
(* min(10, number of categories with a delivered row) entries, and no      *)
(* category left out has more revenue than a listed one.                   *)
C6_TopList ==
    "category" \in ran =>
        LET top == top_10_df
            cats == DeliveredCats(main_df)
            listed == {top[k].category : k \in 1..Len(top)}
        IN  /\ listed \subseteq cats
            /\ Cardinality(listed) = Len(top)
            /\ \A k \in 1..Len(top) :
                top[k].total_revenue = CatRevenue(main_df, top[k].category)
            /\ \A i \in 1..Len(top) : \A j \in i..Len(top) :
                top[i].total_revenue >= top[j].total_revenue
            /\ Len(top) = IF Cardinality(cats) < 10 THEN Cardinality(cats) ELSE 10
            /\ \A c \in cats \ listed : \A k \in 1..Len(top) :
                CatRevenue(main_df, c) <= top[k].total_revenue

C6_Witness ==
    /\ "category" \in ran
    /\ Len(top_10_df) = 10
    /\ Cardinality(DeliveredCats(main_df)) > 10
    /\ \E i \in 1..Len(main_df) :
        /\ main_df[i].order_status = "canceled"
        /\ main_df[i].product_category_name_english # <<>>
        /\ main_df[i].product_category_name_english[1] \notin DeliveredCats(main_df)
    /\ \E i \in 1..9 : top_10_df[i].category > top_10_df[i + 1].category
    /\ \E i \in 1..9 : top_10_df[i].total_revenue > top_10_df[i + 1].total_revenue

HasBothDates(row) ==
    /\ row.order_status = "delivered"
    /\ row.order_delivered_customer_date # <<>>
    /\ row.order_estimated_delivery_date # <<>>

DelayedRows(q2) == [k \in 1..Len(q2) |-> q2[k].row]

(* C7: the delay frame holds exactly the filtered delivered rows with both *)
(* delivery dates; delay_days is the whole days of actual minus estimated  *)
(* (the calendar-day difference when the estimate is at midnight); a row   *)
(* is Late when delay_days > 0 and On Time when delay_days <= 0, so 0 days *)
(* and early deliveries are On Time; 2022-01-12 against 2022-01-10 is 2    *)
(* days, Late, and 2022-01-09 against 2022-01-10 is -1 days, On Time.      *)
C7_DelayBuckets ==
    "delay" \in ran =>
        /\ \A i \in 1..Len(main_df) :
            Count(DelayedRows(q2_df), main_df[i]) =
                IF HasBothDates(main_df[i]) THEN Count(main_df, main_df[i]) ELSE 0
        /\ \A k \in 1..Len(q2_df) :
            LET x == q2_df[k]
                actual == x.row.order_delivered_customer_date[1]
                estimated == x.row.order_estimated_delivery_date[1]
            IN  /\ HasBothDates(x.row)
                /\ Count(main_df, x.row) > 0
                /\ x.delay_days * TicksPerDay <= actual - estimated
                /\ actual - estimated < (x.delay_days + 1) * TicksPerDay
                /\ estimated % TicksPerDay = 0 =>
                    x.delay_days = (actual \div TicksPerDay) - (estimated \div TicksPerDay)
                /\ x.delivery_status \in {Late, OnTime}
                /\ x.delivery_status = Late <=> x.delay_days > 0
                /\ x.delivery_status = OnTime <=> x.delay_days <= 0
                /\ (estimated = 10 * TicksPerDay /\ actual = 12 * TicksPerDay) =>
                    x.delay_days = 2 /\ x.delivery_status = Late
                /\ (estimated = 10 * TicksPerDay /\ actual = 9 * TicksPerDay) =>
                    x.delay_days = 0 - 1 /\ x.delivery_status = OnTime

C7_Witness ==
    /\ "delay" \in ran
    /\ \E k \in 1..Len(q2_df) :
        /\ q2_df[k].delay_days = 0
        /\ q2_df[k].row.order_delivered_customer_date[1]
            > q2_df[k].row.order_estimated_delivery_date[1]
        /\ q2_df[k].delivery_status = OnTime
    /\ \E i \in 1..Len(main_df) :
        /\ main_df[i].order_status = "delivered"
        /\ main_df[i].order_delivered_customer_date = <<>>

(* C8: with the file missing the loader returns no table and shows         *)
(* DataNotFound, and the run stops right after the load: nothing but the   *)
(* load ever runs.  With the file present the loader returns a table, no   *)
(* DataNotFound is shown and the run goes on to the sidebar.               *)
C8_MissingFileHalts ==
    /\ (~fileExists /\ pc # "load") =>
        /\ ~all_df.loaded
        /\ "DataNotFound" \in errors
        /\ ran = {"load"}
        /\ pc \in {"loaded", "stopped"}
    /\ (fileExists /\ pc # "load") =>
        /\ all_df.loaded
        /\ Len(all_df.rows) = Len(csv)
        /\ "DataNotFound" \notin errors
        /\ pc # "loaded" => "sidebar" \in ran

C8_Witness ==
    /\ ~fileExists
    /\ pc = "stopped"
    /\ "DataNotFound" \in errors
    /\ loads = 1

(* C9: the body of the loader runs at most once in a session, the cached   *)
(* table stays the table that was loaded from the file, every run works on *)
(* it, and a run that has ended shows the same outcome (KPIs, category     *)
(* output, delay output, halt) as any earlier run of the session with the  *)
(* same start and end.                                                     *)
C9_CachedTableFrame ==
    /\ loads <= 1
    /\ cache.hit =>
        /\ loads = 1
        /\ cache.value.loaded = fileExists
        /\ Len(cache.value.rows) = Len(csv)
        /\ \A i \in 1..Len(csv) :
            /\ cache.value.rows[i].order_id = csv[i].order_id
            /\ cache.value.rows[i].order_status = csv[i].order_status
            /\ cache.value.rows[i].price = csv[i].price
            /\ cache.value.rows[i].review_score = csv[i].review_score
            /\ cache.value.rows[i].order_purchase_timestamp = <<>>
                <=> csv[i].order_purchase_timestamp.text # "ts"
        /\ pc # "load" => all_df = cache.value
    /\ (Ended /\ snap.set /\ snap.start = start_date /\ snap.end = end_date) =>
        Outcome = snap.out[1]

C9_Witness ==
    /\ pc = "done"
    /\ snap.set
    /\ snap.start = start_date
    /\ snap.end = end_date
    /\ input = <<start_date, end_date>>
    /\ Len(main_df) >= 1
    /\ Len(main_df) < Len(Stamped(Base))

(* C10: in one session a bucket without any review score has its mean      *)
(* surfaced in one way only, always 0 or always NaN, whether the bucket    *)
(* has no rows or has rows whose scores are all null.                      *)
C10_OneConvention == Cardinality(conv) <= 1

=============================================================================
